---------------------------- MODULE Spec2Model ----------------------------
(***************************************************************************)
(* Model of the mocopi WebSocket relay server (LocalServerExample/         *)
(* server.py): the binary decoder (MocopiParser) at byte level, and the    *)
(* relay core (on_data_received, broadcast_to_clients, handle_websocket)   *)
(* as cooperatively scheduled asyncio tasks.                               *)
(*                                                                         *)
(* Conventions.                                                            *)
(*  - A buffer is a sequence of bytes 0..255; offsets are 0-based as in    *)
(*    Python, so byte at offset i is data[i+1].                            *)
(*  - A float read from the wire is kept as its 32-bit IEEE-754 pattern    *)
(*    (sign bit s, low 31 bits m); unary minus flips the sign bit, which   *)
(*    is what Python's -x does to the value struct.unpack('<f') returned.  *)
(*  - None is the record NoneVal; a raised exception inside a reader is    *)
(*    the record [ok |-> FALSE].                                           *)
(*  - datetime.utcnow() is a logical clock passed in as `now`.             *)
(***************************************************************************)
EXTENDS Integers, Sequences, FiniteSets, TLC

VARIABLES
    connected_clients,  \* server.py:50  set of subscriber handles
    latest_skeleton,    \* server.py:51  NoneVal or a skeleton snapshot
    latest_frame,       \* server.py:52  NoneVal or a frame snapshot
    stats,              \* server.py:40  counters
    frame_counter,      \* server.py:82  MocopiParser._frame_counter
    tasks,              \* one record per on_data_received task, in creation order
    ws,                 \* one record per handle_websocket coroutine / connection
    log,                \* history: per handle, the messages written to its socket
    nremoved,           \* history: per handle, number of effective removals from the set
    table,              \* the handles ever added, in hash-table slot order
    nevents,            \* number of external events so far (bounded)
    data,               \* decoder harness: the input buffer
    step,               \* decoder harness: position
    ptype,              \* decoder harness: result of detect_packet_type
    skel,               \* decoder harness: result of parse_skeleton_definition
    frame_snapshot      \* decoder harness: result of parse_frame_data

vars == <<connected_clients, latest_skeleton, latest_frame, stats, frame_counter,
          tasks, ws, log, nremoved, table, nevents, data, step, ptype, skel, frame_snapshot>>

relayVars == <<connected_clients, latest_skeleton, latest_frame, stats, frame_counter,
               tasks, ws, log, nremoved, table, nevents>>

harnessVars == <<data, step, ptype, skel, frame_snapshot>>

-----------------------------------------------------------------------------
(* Wire format constants *)

NUM_BONES == 27

BONE_RECORD_SIZE == 36

TRAN_PAYLOAD_SIZE == 28

TRAN_BLOCK_STRIDE == 32

SIZE_THRESHOLD == 1200

\* 0.0 and 1.0 as IEEE-754 single patterns: sign bit, and the low 31 bits
F32_ONE_BITS == 1065353216

F32_ZERO == [s |-> 0, m |-> 0]

F32_ONE == [s |-> 0, m |-> F32_ONE_BITS]

BONE_NAMES ==
    << "root", "torso_1", "torso_2", "torso_3", "torso_4", "torso_5", "torso_6", "torso_7",
       "neck_1", "neck_2", "head",
       "l_shoulder", "l_up_arm", "l_low_arm", "l_hand",
       "r_shoulder", "r_up_arm", "r_low_arm", "r_hand",
       "l_up_leg", "l_low_leg", "l_foot", "l_toes",
       "r_up_leg", "r_low_leg", "r_foot", "r_toes" >>

\* ASCII markers
M_skdf == <<115, 107, 100, 102>>
M_fram == <<102, 114, 97, 109>>
M_btrs == <<98, 116, 114, 115>>
M_btdt == <<98, 116, 100, 116>>
M_frid == <<102, 114, 105, 100>>
M_time == <<116, 105, 109, 101>>
M_tran == <<116, 114, 97, 110>>

NoneVal == [type |-> "None"]

StructError == [ok |-> FALSE]

-----------------------------------------------------------------------------
(* Python primitives on bytes *)

MinOf(S) == CHOOSE x \in S : \A y \in S : x <= y

Min2(a, b) == IF a <= b THEN a ELSE b

Max2(a, b) == IF a >= b THEN a ELSE b

\* bytes.find(sub, start): lowest offset >= start where sub occurs, else -1
find(buf, marker, start) ==
    LET n == Len(buf)
        k == Len(marker)
        lo == IF start < 0 THEN Max2(n + start, 0) ELSE start
        hits == {i \in lo..(n - k) : \A j \in 1..k : buf[i + j] = marker[j]}
    IN IF hits = {} THEN -1 ELSE MinOf(hits)

\* buf[a:b] with Python's treatment of negative and out-of-range indices
PySlice(buf, a, b) ==
    LET n == Len(buf)
        lo == IF a < 0 THEN Max2(a + n, 0) ELSE Min2(a, n)
        hi == IF b < 0 THEN Max2(b + n, 0) ELSE Min2(b, n)
    IN IF lo >= hi THEN <<>> ELSE SubSeq(buf, lo + 1, hi)

\* struct.unpack('<i', data[offset:offset+4])[0]; struct.error unless 4 bytes
read_int32_le(buf, offset) ==
    LET s == PySlice(buf, offset, offset + 4)
    IN IF Len(s) # 4 THEN StructError
       ELSE [ok |-> TRUE,
             val |-> s[1] + 256 * s[2] + 65536 * s[3]
                     + 16777216 * (IF s[4] >= 128 THEN s[4] - 256 ELSE s[4])]

\* struct.unpack('<f', data[offset:offset+4])[0], kept as the bit pattern:
\* s is bit 31, m the low 31 bits
read_float_le(buf, offset) ==
    LET s == PySlice(buf, offset, offset + 4)
    IN IF Len(s) # 4 THEN StructError
       ELSE [ok |-> TRUE,
             val |-> [s |-> s[4] \div 128,
                      m |-> s[1] + 256 * s[2] + 65536 * s[3] + 16777216 * (s[4] % 128)]]

\* unary minus on a float: flips the sign bit
FNeg(f) == [f EXCEPT !.s = 1 - @]

-----------------------------------------------------------------------------
(* Packet classifier *)

\* Mutant: a marker at offset 0 counts as a match.
detect_packet_type_AnyOffset(buf) ==
    IF find(buf, M_skdf, 0) >= 0 THEN "skeleton"
    ELSE IF find(buf, M_fram, 0) >= 0 \/ find(buf, M_btrs, 0) >= 0 THEN "frame"
    ELSE IF Len(buf) > SIZE_THRESHOLD THEN "skeleton"
    ELSE "frame"

detect_packet_type(buf) ==
    IF find(buf, M_skdf, 0) > 0 THEN "skeleton"
    ELSE IF find(buf, M_fram, 0) > 0 \/ find(buf, M_btrs, 0) > 0 THEN "frame"
    ELSE IF Len(buf) > SIZE_THRESHOLD THEN "skeleton"
    ELSE "frame"

-----------------------------------------------------------------------------
(* Skeleton decoder *)

PARENT_MAP ==
    << -1,
       0, 1, 2, 3, 4, 5, 6,
       7, 8, 9,
       6, 11, 12, 13,
       6, 15, 16, 17,
       0, 19, 20, 21,
       0, 23, 24, 25 >>

\* parent_map.get(bone_id, -1)
_get_parent_bone_id(bone_id) ==
    IF bone_id >= 0 /\ bone_id < Len(PARENT_MAP) THEN PARENT_MAP[bone_id + 1] ELSE -1

\* BONE_NAMES[i] if i < len(BONE_NAMES) else f"bone_{i}"
BoneName(i) ==
    IF i < Len(BONE_NAMES) THEN BONE_NAMES[i + 1] ELSE "bone_" \o ToString(i)

\* "id": bone_id if bone_id < 27 else i
SkeletonBoneId(bone_id, i) == IF bone_id < NUM_BONES THEN bone_id ELSE i

\* Mutant: only the upper limit of parent_id is tested.
SkeletonParentId_UpperOnly(parent_id, i) ==
    IF parent_id < NUM_BONES THEN parent_id ELSE _get_parent_bone_id(i)

\* "parent_id": parent_id if parent_id >= -1 and parent_id < 27 else _get_parent_bone_id(i)
SkeletonParentId(parent_id, i) ==
    IF parent_id >= -1 /\ parent_id < NUM_BONES THEN parent_id ELSE _get_parent_bone_id(i)

\* The body of the record loop for record i at `offset`: a bone, or StructError
\* when one of the reads raises.
ReadBoneRecord(buf, offset, i) ==
    LET bone_id == read_int32_le(buf, offset)
        parent_id == read_int32_le(buf, offset + 4)
        rx == read_float_le(buf, offset + 8)
        ry == read_float_le(buf, offset + 12)
        rz == read_float_le(buf, offset + 16)
        rw == read_float_le(buf, offset + 20)
        px == read_float_le(buf, offset + 24)
        py == read_float_le(buf, offset + 28)
        pz == read_float_le(buf, offset + 32)
    IN IF ~bone_id.ok \/ ~parent_id.ok
          \/ \E r \in {rx, ry, rz, rw, px, py, pz} : ~r.ok
       THEN StructError
       ELSE [ok |-> TRUE,
             val |-> [id |-> SkeletonBoneId(bone_id.val, i),
                      name |-> BoneName(i),
                      parent_id |-> SkeletonParentId(parent_id.val, i),
                      rotation |-> [x |-> rx.val, y |-> ry.val, z |-> rz.val, w |-> rw.val],
                      position |-> [x |-> px.val, y |-> py.val, z |-> pz.val]]]

\* for i in range(num_bones): ... ; the list built when the loop ends, breaks
\* (fewer than 36 bytes left) or is left by an exception.
RECURSIVE ReadBoneRecords(_, _, _, _)
ReadBoneRecords(buf, offset, i, bones) ==
    IF i >= NUM_BONES THEN bones
    ELSE IF offset + BONE_RECORD_SIZE > Len(buf) THEN bones
    ELSE LET b == ReadBoneRecord(buf, offset, i)
         IN IF ~b.ok THEN bones
            ELSE ReadBoneRecords(buf, offset + BONE_RECORD_SIZE, i + 1, Append(bones, b.val))

\* The bones left in skeleton["bones"] by the btdt path (lines 141-182)
BtdtBones(buf) ==
    LET btdt_pos == find(buf, M_btdt, 0)
    IN IF btdt_pos > 0
       THEN LET chunk_size == read_int32_le(buf, btdt_pos - 4)
            IN IF ~chunk_size.ok THEN <<>>
               ELSE ReadBoneRecords(buf, btdt_pos + 4, 0, <<>>)
       ELSE <<>>

\* Mutant: every synthesized bone is parented to the bone before it.
DefaultBones_ParentChain ==
    [i \in 1..NUM_BONES |->
        [id |-> i - 1,
         name |-> BoneName(i - 1),
         parent_id |-> i - 2,
         rotation |-> [x |-> F32_ZERO, y |-> F32_ZERO, z |-> F32_ZERO, w |-> F32_ONE],
         position |-> [x |-> F32_ZERO, y |-> F32_ZERO, z |-> F32_ZERO]]]

DefaultBones ==
    [i \in 1..NUM_BONES |->
        [id |-> i - 1,
         name |-> BoneName(i - 1),
         parent_id |-> _get_parent_bone_id(i - 1),
         rotation |-> [x |-> F32_ZERO, y |-> F32_ZERO, z |-> F32_ZERO, w |-> F32_ONE],
         position |-> [x |-> F32_ZERO, y |-> F32_ZERO, z |-> F32_ZERO]]]

\* Mutant: defaults only when nothing at all was parsed.
BonesOrDefault_OnlyWhenEmpty(bones) == IF Len(bones) = 0 THEN DefaultBones ELSE bones

\* if len(skeleton["bones"]) < num_bones: replace by the defaults
BonesOrDefault(bones) == IF Len(bones) < NUM_BONES THEN DefaultBones ELSE bones

parse_skeleton_definition(buf, now) ==
    [type |-> "skeleton_definition",
     timestamp |-> now,
     num_bones |-> NUM_BONES,
     bones |-> BonesOrDefault(BtdtBones(buf))]

-----------------------------------------------------------------------------
(* Frame decoder *)

\* base64.b64encode(data): sextets 0..63 of the standard alphabet, 64 for '='
b64encode(buf) ==
    LET n == Len(buf)
        B(i) == IF i <= n THEN buf[i] ELSE 0
        ch(k) ==
            LET g == (k - 1) \div 4
                j == (k - 1) % 4
                word == B(3 * g + 1) * 65536 + B(3 * g + 2) * 256 + B(3 * g + 3)
                avail == n - 3 * g
            IN IF j = 2 /\ avail < 2 THEN 64
               ELSE IF j = 3 /\ avail < 3 THEN 64
               ELSE (word \div (64 ^ (3 - j))) % 64
    IN [k \in 1..(4 * ((n + 2) \div 3)) |-> ch(k)]

\* Mutant: the search resumes right after the marker instead of 32 bytes on.
RECURSIVE ScanTran_ResumeAfterMarker(_, _, _)
ScanTran_ResumeAfterMarker(buf, search_start, tran_positions) ==
    LET tran_pos == find(buf, M_tran, search_start)
    IN IF tran_pos < 0 \/ tran_pos >= Len(buf) - TRAN_PAYLOAD_SIZE THEN tran_positions
       ELSE ScanTran_ResumeAfterMarker(buf, tran_pos + Len(M_tran),
                                       Append(tran_positions, tran_pos))

\* while True: tran_pos = data.find(b'tran', search_start) ...
RECURSIVE ScanTran(_, _, _)
ScanTran(buf, search_start, tran_positions) ==
    LET tran_pos == find(buf, M_tran, search_start)
    IN IF tran_pos < 0 \/ tran_pos >= Len(buf) - TRAN_PAYLOAD_SIZE THEN tran_positions
       ELSE ScanTran(buf, tran_pos + TRAN_BLOCK_STRIDE, Append(tran_positions, tran_pos))

\* Mutant: the w component of the rotation is passed through.
ReadTranBone_KeepW(buf, bone_offset, i) ==
    LET rx == read_float_le(buf, bone_offset)
        ry == read_float_le(buf, bone_offset + 4)
        rz == read_float_le(buf, bone_offset + 8)
        rw == read_float_le(buf, bone_offset + 12)
        px == read_float_le(buf, bone_offset + 16)
        py == read_float_le(buf, bone_offset + 20)
        pz == read_float_le(buf, bone_offset + 24)
    IN IF \E r \in {rx, ry, rz, rw, px, py, pz} : ~r.ok
       THEN StructError
       ELSE [ok |-> TRUE,
             val |-> [id |-> i,
                      name |-> BoneName(i),
                      rotation |-> [x |-> FNeg(rx.val), y |-> ry.val,
                                    z |-> rz.val, w |-> rw.val],
                      position |-> [x |-> FNeg(px.val), y |-> py.val, z |-> pz.val]]]

\* The bone built from the 28 bytes at bone_offset, or StructError
ReadTranBone(buf, bone_offset, i) ==
    LET rx == read_float_le(buf, bone_offset)
        ry == read_float_le(buf, bone_offset + 4)
        rz == read_float_le(buf, bone_offset + 8)
        rw == read_float_le(buf, bone_offset + 12)
        px == read_float_le(buf, bone_offset + 16)
        py == read_float_le(buf, bone_offset + 20)
        pz == read_float_le(buf, bone_offset + 24)
    IN IF \E r \in {rx, ry, rz, rw, px, py, pz} : ~r.ok
       THEN StructError
       ELSE [ok |-> TRUE,
             val |-> [id |-> i,
                      name |-> BoneName(i),
                      rotation |-> [x |-> FNeg(rx.val), y |-> ry.val,
                                    z |-> rz.val, w |-> FNeg(rw.val)],
                      position |-> [x |-> FNeg(px.val), y |-> py.val, z |-> pz.val]]]

\* for i, tran_pos in enumerate(tran_positions): ...
RECURSIVE ReadTranBones(_, _, _, _)
ReadTranBones(buf, tran_positions, i, bones) ==
    IF i >= Len(tran_positions) THEN bones
    ELSE IF i >= NUM_BONES THEN bones
    ELSE LET bone_offset == tran_positions[i + 1] + 4
         IN IF bone_offset + TRAN_PAYLOAD_SIZE > Len(buf) THEN bones
            ELSE LET b == ReadTranBone(buf, bone_offset, i)
                 IN IF ~b.ok THEN bones
                    ELSE ReadTranBones(buf, tran_positions, i + 1, Append(bones, b.val))

\* frame["bones"] after lines 275-346
FrameBones(buf) ==
    LET btrs_pos == find(buf, M_btrs, 0)
    IN IF btrs_pos > 0
       THEN ReadTranBones(buf, ScanTran(buf, btrs_pos, <<>>), 0, <<>>)
       ELSE <<>>

NoFields == [k \in {} |-> 0]

\* Mutant: the diagnostic payload is attached to every frame.
parse_frame_data_AlwaysRaw(buf, counter, now) ==
    LET frid_pos == find(buf, M_frid, 0)
        has_frid == frid_pos > 0 /\ frid_pos + 8 <= Len(buf)
        frid == IF has_frid THEN read_int32_le(buf, frid_pos + 4)
                ELSE [ok |-> TRUE, val |-> counter + 1]
        time_pos == find(buf, M_time, 0)
        has_time == time_pos > 0 /\ time_pos + 12 <= Len(buf)
        mtime == IF has_time THEN read_float_le(buf, time_pos + 8)
                 ELSE [ok |-> TRUE, val |-> F32_ZERO]
        bones == FrameBones(buf)
    IN IF ~frid.ok \/ ~mtime.ok THEN NoneVal
       ELSE [type |-> "frame_data",
             timestamp |-> now,
             frame_id |-> frid.val,
             bones |-> bones]
            @@ (IF has_time THEN [mocopi_time |-> mtime.val] ELSE NoFields)
            @@ [raw_data |-> b64encode(buf),
                data_length |-> Len(buf),
                parse_note |-> "Could not extract bone transforms"]

\* The value returned for the call made when the counter is `counter`
\* (the counter itself becomes counter + 1 in every case, line 228).
parse_frame_data(buf, counter, now) ==
    LET frid_pos == find(buf, M_frid, 0)
        has_frid == frid_pos > 0 /\ frid_pos + 8 <= Len(buf)
        frid == IF has_frid THEN read_int32_le(buf, frid_pos + 4)
                ELSE [ok |-> TRUE, val |-> counter + 1]
        time_pos == find(buf, M_time, 0)
        has_time == time_pos > 0 /\ time_pos + 12 <= Len(buf)
        mtime == IF has_time THEN read_float_le(buf, time_pos + 8)
                 ELSE [ok |-> TRUE, val |-> F32_ZERO]
        bones == FrameBones(buf)
    IN IF ~frid.ok \/ ~mtime.ok THEN NoneVal
       ELSE [type |-> "frame_data",
             timestamp |-> now,
             frame_id |-> frid.val,
             bones |-> bones]
            @@ (IF has_time THEN [mocopi_time |-> mtime.val] ELSE NoFields)
            @@ (IF Len(bones) = 0
                THEN [raw_data |-> b64encode(buf),
                      data_length |-> Len(buf),
                      parse_note |-> "Could not extract bone transforms"]
                ELSE NoFields)

-----------------------------------------------------------------------------
(* Relay core: bounds and inputs *)

\* External events (datagrams, connections, subscriber messages, peer closes)
\* in one execution
MaxEvents == 4

\* Datagrams fed to the relay: a frame packet without transforms and a
\* skeleton packet without bone data (one filler byte, then the marker).
RelayDatagrams == { <<0>> \o M_fram, <<0>> \o M_skdf }

\* Text frames a subscriber sends: the two commands, an object with another
\* type, text that is not JSON, and JSON that is not an object
ClientMessages == {"ping", "request_skeleton", "other", "badjson", "nonobject"}

\* json.loads(message)
json_loads(m) ==
    CASE m = "badjson" -> [ok |-> FALSE, is_object |-> FALSE, type |-> ""]
      [] m = "nonobject" -> [ok |-> TRUE, is_object |-> FALSE, type |-> ""]
      [] OTHER -> [ok |-> TRUE, is_object |-> TRUE, type |-> m]

\* Mutant: an object with an unrecognised type is answered like a ping.
Command_AnswersUnknown(m) ==
    LET d == json_loads(m)
    IN IF ~d.ok THEN "JSONDecodeError"
       ELSE IF ~d.is_object THEN "AttributeError"
       ELSE IF d.type = "request_skeleton" THEN d.type
       ELSE "ping"

\* What the body of the message loop does with a message: the command it
\* dispatches on, or the exception its handlers catch (json.JSONDecodeError
\* from json.loads, AttributeError from data.get on a non-object)
Command(m) ==
    LET d == json_loads(m)
    IN IF ~d.ok THEN "JSONDecodeError"
       ELSE IF ~d.is_object THEN "AttributeError"
       ELSE d.type

\* The handles (connections) made so far, numbered in connection order
Handles == 1..Len(ws)

InitStats ==
    [udp_packets_received |-> 0,
     skeleton_packets |-> 0,
     frame_packets |-> 0,
     ws_messages_sent |-> 0,
     ws_clients_connected |-> 0]

\* A task created by asyncio.create_task(self.callback(data, addr)), not yet run
NewTask(d) ==
    [data |-> d,
     pc |-> "created",
     message |-> NoneVal,
     si_used |-> 0,
     cur |-> 0,
     send_ok |-> FALSE,
     disconnected |-> {},
     sent_count |-> 0,
     startset |-> {},
     endset |-> {}]

\* websocket.send(message) at the moment it is called: the message is written
\* to an open connection; on a closed one the call raises.
SendOk(w, c) == w[c].conn = "open"

Written(lg, w, c, entry) ==
    IF SendOk(w, c) THEN [lg EXCEPT ![c] = Append(@, entry)] ELSE lg

BroadcastEntry(t, snap) ==
    [kind |-> "broadcast", type |-> snap.type, ts |-> snap.timestamp, task |-> t]

ReplayEntry(snap) ==
    [kind |-> "replay", type |-> snap.type, ts |-> snap.timestamp, task |-> 0]

ReplyEntry(snap) ==
    [kind |-> "reply", type |-> snap.type, ts |-> snap.timestamp, task |-> 0]

PongEntry == [kind |-> "reply", type |-> "pong", ts |-> 0, task |-> 0]

\* The timestamp of a slot's snapshot, 0 for an empty slot (history: what a
\* handle found in the slots when it connected is kept in sk0 and fr0, the
\* last message it read in msg and the number of messages it read in nrecv)
Ts(slot) == IF slot = NoneVal THEN 0 ELSE slot.timestamp

\* set.discard(c) for every c in gone, with the count of effective removals
Discarded(gone) == connected_clients \ gone

CountRemovals(gone) ==
    [c \in DOMAIN nremoved |-> IF c \in gone /\ c \in connected_clients
                               THEN nremoved[c] + 1 ELSE nremoved[c]]

\* Position of handle c in the table; 0 for "before the first slot"
SlotOf(c) == IF c = 0 THEN 0 ELSE CHOOSE k \in 1..Len(table) : table[k] = c

\* CPython's set iterator: next(it) raises RuntimeError when the set's size is
\* not the size it had when the iterator was made; otherwise it yields the
\* member in the first occupied slot after the cursor (the slot of the member
\* it yielded last).
SetIterNext(si_used, cur) ==
    IF Cardinality(connected_clients) # si_used THEN [kind |-> "RuntimeError"]
    ELSE LET rest == {k \in 1..Len(table) :
                        k > SlotOf(cur) /\ table[k] \in connected_clients}
         IN IF rest = {} THEN [kind |-> "StopIteration"]
            ELSE [kind |-> "item", item |-> table[MinOf(rest)]]

\* broadcast_to_clients from one `for` step to the next suspension: tk is the
\* task's record and st the counters as they are when next(it) is called.
BroadcastAdvance(t, tk, st) ==
    LET nx == SetIterNext(tk.si_used, tk.cur)
    IN CASE nx.kind = "RuntimeError" ->
              /\ tasks' = [tasks EXCEPT ![t] =
                            [tk EXCEPT !.pc = "raised", !.endset = connected_clients]]
              /\ stats' = st
              /\ UNCHANGED <<connected_clients, log, nremoved>>
         [] nx.kind = "StopIteration" ->
              /\ connected_clients' = Discarded(tk.disconnected)
              /\ nremoved' = CountRemovals(tk.disconnected)
              /\ tasks' = [tasks EXCEPT ![t] =
                            [tk EXCEPT !.pc = "done",
                                       !.endset = Discarded(tk.disconnected)]]
              /\ stats' = st
              /\ UNCHANGED log
         [] nx.kind = "item" ->
              /\ tasks' = [tasks EXCEPT ![t] =
                            [tk EXCEPT !.pc = "send",
                                       !.cur = nx.item,
                                       !.send_ok = SendOk(ws, nx.item)]]
              /\ log' = Written(log, ws, nx.item, BroadcastEntry(t, tk.message))
              /\ stats' = st
              /\ UNCHANGED <<connected_clients, nremoved>>

\* Mutant: the call is counted as a sent message before the empty-set check.
BroadcastBegin_CountsCall(t, snap, st) ==
    IF connected_clients = {}
    THEN /\ tasks' = [tasks EXCEPT ![t] = [@ EXCEPT !.pc = "done", !.message = snap]]
         /\ stats' = [st EXCEPT !.ws_messages_sent = @ + 1]
         /\ UNCHANGED <<connected_clients, log, nremoved>>
    ELSE BroadcastAdvance(t,
            [tasks[t] EXCEPT !.message = snap,
                             !.si_used = Cardinality(connected_clients),
                             !.cur = 0,
                             !.startset = connected_clients],
            st)

\* broadcast_to_clients(data) from its call to its first suspension
BroadcastBegin(t, snap, st) ==
    IF connected_clients = {}
    THEN /\ tasks' = [tasks EXCEPT ![t] = [@ EXCEPT !.pc = "done", !.message = snap]]
         /\ stats' = st
         /\ UNCHANGED <<connected_clients, log, nremoved>>
    ELSE BroadcastAdvance(t,
            [tasks[t] EXCEPT !.message = snap,
                             !.si_used = Cardinality(connected_clients),
                             !.cur = 0,
                             !.startset = connected_clients],
            st)

-----------------------------------------------------------------------------
(* Relay core: actions *)

\* MocopiUDPProtocol.datagram_received
datagram_received ==
    \E d \in RelayDatagrams :
        /\ nevents < MaxEvents
        /\ nevents' = nevents + 1
        /\ tasks' = Append(tasks, NewTask(d))
        /\ UNCHANGED <<connected_clients, latest_skeleton, latest_frame, stats,
                       frame_counter, ws, log, nremoved, table, harnessVars>>

\* Mutant: the task created last starts first.
NextToStart_NewestFirst(t) ==
    /\ tasks[t].pc = "created"
    /\ \A u \in (t + 1)..Len(tasks) : tasks[u].pc # "created"

\* Mutant: ready tasks start in any order.
NextToStart_AnyOrder(t) ==
    tasks[t].pc = "created"

\* The event loop runs ready tasks in the order they were created.
NextToStart(t) ==
    /\ tasks[t].pc = "created"
    /\ \A u \in 1..(t - 1) : tasks[u].pc # "created"

\* on_data_received for a skeleton packet, lines 431-440
HandleSkeleton(t, st1, packet_num) ==
    LET skeleton == parse_skeleton_definition(tasks[t].data, packet_num)
        st2 == [st1 EXCEPT !.skeleton_packets = @ + 1]
    IN /\ UNCHANGED <<latest_frame, frame_counter>>
       /\ IF skeleton # NoneVal
          THEN /\ latest_skeleton' = skeleton
               /\ BroadcastBegin(t, skeleton, st2)
          ELSE /\ tasks' = [tasks EXCEPT ![t].pc = "done"]
               /\ stats' = st2
               /\ UNCHANGED <<latest_skeleton, connected_clients, log, nremoved>>

\* Mutant: the frame branch stores its snapshot in the skeleton slot.
HandleFrame_WrongSlot(t, st1, packet_num) ==
    LET frame == parse_frame_data(tasks[t].data, frame_counter, packet_num)
        st2 == [st1 EXCEPT !.frame_packets = @ + 1]
    IN /\ frame_counter' = frame_counter + 1
       /\ UNCHANGED latest_frame
       /\ latest_skeleton' = frame
       /\ BroadcastBegin(t, frame, st2)

\* on_data_received for a frame packet, lines 442-454
HandleFrame(t, st1, packet_num) ==
    LET frame == parse_frame_data(tasks[t].data, frame_counter, packet_num)
        st2 == [st1 EXCEPT !.frame_packets = @ + 1]
    IN /\ frame_counter' = frame_counter + 1
       /\ UNCHANGED latest_skeleton
       /\ IF frame # NoneVal
          THEN /\ latest_frame' = frame
               /\ BroadcastBegin(t, frame, st2)
          ELSE /\ tasks' = [tasks EXCEPT ![t].pc = "done"]
               /\ stats' = st2
               /\ UNCHANGED <<latest_frame, connected_clients, log, nremoved>>

\* MocopiUDPReceiver.on_data_received from its start to its first suspension
on_data_received ==
    \E t \in 1..Len(tasks) :
        /\ NextToStart(t)
        /\ LET st1 == [stats EXCEPT !.udp_packets_received = @ + 1]
               packet_num == st1.udp_packets_received
               packet_type == detect_packet_type(tasks[t].data)
           IN IF packet_type = "skeleton"
              THEN HandleSkeleton(t, st1, packet_num)
              ELSE HandleFrame(t, st1, packet_num)
        /\ UNCHANGED <<ws, table, nevents, harnessVars>>

\* broadcast_to_clients resumed after `await client.send(message)`
broadcast_resume ==
    \E t \in 1..Len(tasks) :
        /\ tasks[t].pc = "send"
        /\ IF tasks[t].send_ok
           THEN BroadcastAdvance(t,
                    [tasks[t] EXCEPT !.sent_count = @ + 1],
                    [stats EXCEPT !.ws_messages_sent = @ + 1])
           ELSE BroadcastAdvance(t,
                    [tasks[t] EXCEPT !.disconnected = @ \cup {tasks[t].cur}],
                    stats)
        /\ UNCHANGED <<latest_skeleton, latest_frame, frame_counter, ws, table, nevents,
                       harnessVars>>

\* The `finally` block of handle_websocket
HandlerFinally(c) ==
    /\ connected_clients' = Discarded({c})
    /\ nremoved' = CountRemovals({c})
    /\ stats' = [stats EXCEPT !.ws_clients_connected = Cardinality(Discarded({c}))]
    /\ ws' = [ws EXCEPT ![c].pc = "ended"]

\* Mutant: the cached frame is never replayed.
ReplayFrame_Omitted(c, w, lg) ==
    /\ ws' = [w EXCEPT ![c].pc = "recv"]
    /\ log' = lg

\* handle_websocket from `if latest_frame:` to its next suspension; w and lg
\* are the connections and the socket logs at that point.
ReplayFrame(c, w, lg) ==
    IF latest_frame # NoneVal
    THEN /\ ws' = [w EXCEPT ![c].pc = "replay_frame", ![c].send_ok = SendOk(w, c)]
         /\ log' = Written(lg, w, c, ReplayEntry(latest_frame))
    ELSE /\ ws' = [w EXCEPT ![c].pc = "recv"]
         /\ log' = lg

\* A set.add of a new handle puts it in some free slot of the hash table:
\* anywhere in the slot order.
InsertAt(seq, k, c) == SubSeq(seq, 1, k - 1) \o <<c>> \o SubSeq(seq, k, Len(seq))

\* handle_websocket from its start to its first suspension
handle_websocket ==
    \E k \in 1..(Len(table) + 1) :
        LET c == Len(ws) + 1
            w == Append(ws, [pc |-> "start", conn |-> "open", send_ok |-> FALSE,
                             sk0 |-> Ts(latest_skeleton), fr0 |-> Ts(latest_frame),
                             msg |-> "", nrecv |-> 0])
            lg == Append(log, <<>>)
        IN /\ nevents < MaxEvents
           /\ nevents' = nevents + 1
           /\ table' = InsertAt(table, k, c)
           /\ nremoved' = Append(nremoved, 0)
           /\ connected_clients' = connected_clients \cup {c}
           /\ stats' = [stats EXCEPT
                           !.ws_clients_connected = Cardinality(connected_clients \cup {c})]
           /\ IF latest_skeleton # NoneVal
              THEN /\ ws' = [w EXCEPT ![c].pc = "replay_skeleton",
                                      ![c].send_ok = SendOk(w, c)]
                   /\ log' = Written(lg, w, c, ReplayEntry(latest_skeleton))
              ELSE ReplayFrame(c, w, lg)
           /\ UNCHANGED <<latest_skeleton, latest_frame, frame_counter, tasks,
                          harnessVars>>

\* handle_websocket resumed after the send of the cached skeleton
replay_skeleton_resume ==
    \E c \in Handles :
        /\ ws[c].pc = "replay_skeleton"
        /\ IF ws[c].send_ok
           THEN /\ ReplayFrame(c, ws, log)
                /\ UNCHANGED <<connected_clients, nremoved, stats>>
           ELSE /\ HandlerFinally(c)
                /\ UNCHANGED log
        /\ UNCHANGED <<latest_skeleton, latest_frame, frame_counter, tasks, table,
                       nevents, harnessVars>>

\* handle_websocket resumed after the send of the cached frame
replay_frame_resume ==
    \E c \in Handles :
        /\ ws[c].pc = "replay_frame"
        /\ IF ws[c].send_ok
           THEN /\ ws' = [ws EXCEPT ![c].pc = "recv"]
                /\ UNCHANGED <<connected_clients, nremoved, stats>>
           ELSE HandlerFinally(c)
        /\ UNCHANGED <<latest_skeleton, latest_frame, frame_counter, tasks, log, table,
                       nevents, harnessVars>>

\* One turn of `async for message in websocket`, to the next suspension
client_message ==
    \E c \in Handles, m \in ClientMessages :
        /\ ws[c].pc = "recv"
        /\ nevents < MaxEvents
        /\ nevents' = nevents + 1
        /\ LET w == [ws EXCEPT ![c].msg = m, ![c].nrecv = @ + 1]
           IN CASE Command(m) = "ping" ->
                     /\ ws' = [w EXCEPT ![c].pc = "reply", ![c].send_ok = SendOk(ws, c)]
                     /\ log' = Written(log, ws, c, PongEntry)
                [] Command(m) = "request_skeleton" /\ latest_skeleton # NoneVal ->
                     /\ ws' = [w EXCEPT ![c].pc = "reply", ![c].send_ok = SendOk(ws, c)]
                     /\ log' = Written(log, ws, c, ReplyEntry(latest_skeleton))
                [] OTHER ->
                     /\ ws' = w
                     /\ log' = log
        /\ UNCHANGED <<connected_clients, latest_skeleton, latest_frame, stats,
                       frame_counter, tasks, nremoved, table, harnessVars>>

\* The message loop resumed after a reply's send; an exception raised by the
\* send is caught by the loop body's `except Exception`.
reply_resume ==
    \E c \in Handles :
        /\ ws[c].pc = "reply"
        /\ ws' = [ws EXCEPT ![c].pc = "recv"]
        /\ UNCHANGED <<connected_clients, latest_skeleton, latest_frame, stats,
                       frame_counter, tasks, log, nremoved, table, nevents, harnessVars>>

\* The peer closes (or loses) the connection.
peer_close ==
    \E c \in Handles :
        /\ ws[c].pc # "ended"
        /\ ws[c].conn = "open"
        /\ nevents < MaxEvents
        /\ nevents' = nevents + 1
        /\ ws' = [ws EXCEPT ![c].conn = "closed"]
        /\ UNCHANGED <<connected_clients, latest_skeleton, latest_frame, stats,
                       frame_counter, tasks, log, nremoved, table, harnessVars>>

\* `async for` ends on a closed connection: ConnectionClosed, then `finally`
handler_end ==
    \E c \in Handles :
        /\ ws[c].pc = "recv"
        /\ ws[c].conn = "closed"
        /\ HandlerFinally(c)
        /\ UNCHANGED <<latest_skeleton, latest_frame, frame_counter, tasks, log, table,
                       nevents, harnessVars>>

Init ==
    /\ connected_clients = {}
    /\ latest_skeleton = NoneVal
    /\ latest_frame = NoneVal
    /\ stats = InitStats
    /\ frame_counter = 0
    /\ tasks = <<>>
    /\ ws = <<>>
    /\ log = <<>>
    /\ nremoved = <<>>
    /\ table = <<>>
    /\ nevents = 0
    /\ data = <<>>
    /\ step = "off"
    /\ ptype = ""
    /\ skel = NoneVal
    /\ frame_snapshot = NoneVal

Next ==
    \/ datagram_received
    \/ on_data_received
    \/ broadcast_resume
    \/ handle_websocket
    \/ replay_skeleton_resume
    \/ replay_frame_resume
    \/ client_message
    \/ reply_resume
    \/ peer_close
    \/ handler_end

Spec == Init /\ [][Next]_vars

-----------------------------------------------------------------------------
(* Properties of the relay core *)

\* Number of times pass t wrote its message to handle c's socket
BroadcastCount(c, t) ==
    Cardinality({k \in 1..Len(log[c]) :
                    log[c][k].kind = "broadcast" /\ log[c][k].task = t})

PassEnded(t) == tasks[t].pc \in {"done", "raised"}

\* Members of the set from the start of pass t to its end
WholePassMembers(t) == tasks[t].startset \cap tasks[t].endset

\* C1: joins and leaves during a suspended broadcast pass are safe: no pass
\* raises, every subscriber that was a member for the whole of a finished pass
\* was sent its message exactly once, the set holds only known handles, and no
\* handle is removed twice.
C1_MembershipChangeSafe ==
    /\ connected_clients \subseteq Handles
    /\ \A c \in Handles : nremoved[c] <= 1
    /\ \A t \in 1..Len(tasks) :
          /\ tasks[t].pc # "raised"
          /\ tasks[t].pc = "done" =>
                \A c \in WholePassMembers(t) : BroadcastCount(c, t) = 1

\* C2: in a finished pass in which a send failed, and whose only membership
\* changes are removals of subscribers whose send failed, every other member
\* with a working connection got the pass's message.
C2_FailedSendDoesNotBlockOthers ==
    \A t \in 1..Len(tasks) :
        ( /\ PassEnded(t)
          /\ tasks[t].disconnected # {}
          /\ tasks[t].endset \subseteq tasks[t].startset
          /\ (tasks[t].startset \ tasks[t].endset) \subseteq tasks[t].disconnected )
        => \A c \in WholePassMembers(t) :
              ws[c].conn = "open" => BroadcastCount(c, t) >= 1

\* C3: a subscriber whose send failed in a pass stays in the set while the
\* pass is iterating, and is absent from the set when the pass has ended.
C3_PrunedAfterPass ==
    \A t \in 1..Len(tasks) :
        /\ tasks[t].pc = "send" => tasks[t].disconnected \subseteq connected_clients
        /\ PassEnded(t) => tasks[t].disconnected \cap tasks[t].endset = {}

\* C4: no on_data_received task ends in an unhandled exception.
C4_HandlerNeverRaises ==
    ~ \E t \in 1..Len(tasks) : tasks[t].pc = "raised"

\* The replay messages written to handle c's socket, in order
Replays(c) == SelectSeq(log[c], LAMBDA e : e.kind = "replay")

ReplayDone(c) == ws[c].pc \in {"recv", "reply", "ended"}

ReplayOf(type, ts) == [kind |-> "replay", type |-> type, ts |-> ts, task |-> 0]

\* What the slots held when c connected, skeleton first
CachedAtConnect(c) ==
    (IF ws[c].sk0 # 0 THEN <<ReplayOf("skeleton_definition", ws[c].sk0)>> ELSE <<>>)
    \o (IF ws[c].fr0 # 0 THEN <<ReplayOf("frame_data", ws[c].fr0)>> ELSE <<>>)

\* C5 as stated: once the join handler is past its replay, the new subscriber
\* has been sent exactly the snapshots that were cached when it connected,
\* skeleton first (two, one or zero messages).
C5_ReplayIsCacheAtConnect ==
    \A c \in Handles : ReplayDone(c) => Replays(c) = CachedAtConnect(c)

\* The replay step taken by handle c when it evaluates `if latest_frame:`
FrameReplayStep(c, before) ==
    Replays(c)' = IF latest_frame # NoneVal /\ ws[c].conn = "open"
                  THEN Append(before, ReplayOf("frame_data", latest_frame.timestamp))
                  ELSE before

ReplayShape(c) ==
    LET r == Replays(c)
    IN /\ Len(r) <= 2
       /\ \A k \in 1..Len(r) : r[k].type \in {"skeleton_definition", "frame_data"}
       /\ Len(r) = 2 => r[1].type = "skeleton_definition" /\ r[2].type = "frame_data"
       /\ ws[c].sk0 # 0 => Len(r) >= 1 /\ r[1] = ReplayOf("skeleton_definition", ws[c].sk0)
       /\ ws[c].sk0 = 0 /\ ReplayDone(c) => r = CachedAtConnect(c)

\* C5 amended, step by step: replay messages are written only to the handle
\* that is joining; at connect it is sent the cached skeleton if there is one
\* and otherwise goes straight to the frame check; when the skeleton send has
\* completed successfully it is sent the frame cached at that moment if there
\* is one and the connection is still open; nothing else is a replay.
C5_ReplaySteps ==
    /\ \A c \in Handles :
          IF ws[c].pc = "replay_skeleton" /\ ws'[c].pc # "replay_skeleton"
          THEN IF ws[c].send_ok THEN FrameReplayStep(c, Replays(c))
               ELSE Replays(c)' = Replays(c) /\ ws'[c].pc = "ended"
          ELSE Replays(c)' = Replays(c)
    /\ \A c \in (DOMAIN ws') \ Handles :
          IF latest_skeleton # NoneVal
          THEN Replays(c)' = <<ReplayOf("skeleton_definition", latest_skeleton.timestamp)>>
          ELSE IF latest_frame # NoneVal
          THEN Replays(c)' = <<ReplayOf("frame_data", latest_frame.timestamp)>>
          ELSE Replays(c)' = <<>>

\* C5 amended: the join handler sends replay messages to the joining
\* subscriber only: the skeleton cached at connect, if any, and then, once that
\* send has completed, the frame cached at that moment, if any and if the
\* connection is still open; zero messages when both slots are empty at connect
\* and exactly the cached frame when only the frame slot is non-empty.
C5_ReplayAmended ==
    /\ [](\A c \in Handles : ReplayShape(c))
    /\ [][C5_ReplaySteps]_vars

\* C5 witness: a handle that connected with both slots non-empty and has been
\* sent its two replay messages
C5_Witness ==
    \E c \in Handles :
        /\ ws[c].pc = "recv"
        /\ ws[c].sk0 # 0 /\ ws[c].fr0 # 0
        /\ Len(Replays(c)) = 2

\* The tasks that have decoded a packet of the given snapshot type
Decoded(type) ==
    {t \in 1..Len(tasks) : tasks[t].pc # "created" /\ tasks[t].message.type = type}

MaxOf(S) == CHOOSE x \in S : \A y \in S : x >= y

\* Number of frame packets decoded before task t
FramesBefore(t) ==
    Cardinality({u \in 1..(t - 1) : detect_packet_type(tasks[u].data) = "frame"})

\* C6: each slot is empty until a datagram of its kind has been handled, and
\* then holds exactly the complete snapshot the matching decoder produced for
\* the most recently handled datagram of that kind; so nothing but the handling
\* of a skeleton (frame) datagram changes the skeleton (frame) slot.
C6_RelayStateSlots ==
    /\ IF Decoded("skeleton_definition") = {} THEN latest_skeleton = NoneVal
       ELSE LET t == MaxOf(Decoded("skeleton_definition"))
            IN /\ detect_packet_type(tasks[t].data) = "skeleton"
               /\ latest_skeleton = parse_skeleton_definition(tasks[t].data, t)
               /\ Len(latest_skeleton.bones) = NUM_BONES
    /\ IF Decoded("frame_data") = {} THEN latest_frame = NoneVal
       ELSE LET t == MaxOf(Decoded("frame_data"))
            IN /\ detect_packet_type(tasks[t].data) = "frame"
               /\ latest_frame = parse_frame_data(tasks[t].data, FramesBefore(t), t)

\* C6 witness: both slots are filled and a subscriber has connected, sent a
\* message and been answered
C6_Witness ==
    /\ latest_skeleton # NoneVal
    /\ latest_frame # NoneVal
    /\ \E c \in Handles : \E k \in 1..Len(log[c]) : log[c][k].kind = "reply"

\* The step in which task t runs on_data_received while the set is empty: the
\* broadcast sends nothing and leaves the set, the sockets and the sent-message
\* counter as they were; the slots hold what the handler stored before the call.
EmptyBroadcastStep(t) ==
    /\ tasks'[t].pc = "done"
    /\ tasks'[t].sent_count = 0
    /\ connected_clients' = connected_clients
    /\ nremoved' = nremoved
    /\ log' = log
    /\ stats'.ws_messages_sent = stats.ws_messages_sent
    /\ latest_skeleton' \in {latest_skeleton, tasks'[t].message}
    /\ latest_frame' \in {latest_frame, tasks'[t].message}
    /\ <<latest_skeleton', latest_frame'>> # <<tasks'[t].message, tasks'[t].message>>

\* C16: broadcast_to_clients called while the set is empty performs zero sends
\* and changes neither the set, nor the slots, nor the sent-message counter.
C16_EmptySetBroadcast ==
    /\ [](\A t \in 1..Len(tasks) :
            tasks[t].pc = "done" /\ tasks[t].startset = {}
                => \A c \in Handles : BroadcastCount(c, t) = 0)
    /\ [][\A t \in 1..Len(tasks) :
            tasks[t].pc = "created" /\ tasks'[t].pc # "created" /\ connected_clients = {}
                => EmptyBroadcastStep(t)]_vars

\* C16 witness: a pass over an empty set, after an earlier pass did send
C16_Witness ==
    \E t, u \in 1..Len(tasks) :
        /\ u < t
        /\ tasks[u].sent_count >= 1
        /\ tasks[t].pc = "done"
        /\ tasks[t].message # NoneVal
        /\ tasks[t].startset = {}
        /\ connected_clients = {}

\* The reply owed to message m: one pong for a ping, the cached skeleton for a
\* request_skeleton when the slot is non-empty, nothing otherwise
ReplyOwed(m) ==
    CASE m = "ping" -> <<[kind |-> "reply", type |-> "pong", ts |-> 0, task |-> 0]>>
      [] m = "request_skeleton" /\ latest_skeleton # NoneVal ->
            <<[kind |-> "reply", type |-> "skeleton_definition",
               ts |-> latest_skeleton.timestamp, task |-> 0]>>
      [] OTHER -> <<>>

\* The step in which handle c reads a message: the connection is not closed,
\* the handler goes on (reading, or waiting for its reply's send), the set and
\* the slots are unchanged, nothing is written to another socket, and `sent`
\* is what is written to c's socket
MessageStep(c, sent) ==
    /\ ws'[c].conn = ws[c].conn
    /\ ws'[c].pc \in {"recv", "reply"}
    /\ connected_clients' = connected_clients
    /\ latest_skeleton' = latest_skeleton
    /\ latest_frame' = latest_frame
    /\ \A d \in Handles \ {c} : log'[d] = log[d]
    /\ log'[c] = log[c] \o sent

\* The step in which handle c comes back from the send of a reply: it reads on
AfterReplyStep(c) ==
    /\ ws'[c].pc = "recv"
    /\ ws'[c].conn = ws[c].conn
    /\ connected_clients' = connected_clients
    /\ log' = log

\* C17 as stated: malformed and unrecognised messages get no reply and neither
\* close the connection nor remove the subscriber; a ping gets exactly one
\* pong and a request_skeleton the cached skeleton if there is one, sent to
\* that subscriber only, with Relay State unchanged.
C17_MessageHandling ==
    [][\A c \in Handles :
          /\ ws'[c].nrecv # ws[c].nrecv =>
                /\ MessageStep(c, ReplyOwed(ws'[c].msg))
                /\ ReplyOwed(ws'[c].msg) = <<>> <=> ws'[c].pc = "recv"
          /\ ws[c].pc = "reply" /\ ws'[c].pc # "reply" => AfterReplyStep(c)]_vars

\* C17 amended: as stated, except that the reply to a ping or to a
\* request_skeleton reaches the subscriber only if its connection is open when
\* the reply is sent; on a closed connection the send fails, the failure is
\* caught, nothing is written and the handler goes on reading.
C17_MessageHandlingAmended ==
    [][\A c \in Handles :
          /\ ws'[c].nrecv # ws[c].nrecv =>
                /\ MessageStep(c, IF ws[c].conn = "open"
                                  THEN ReplyOwed(ws'[c].msg) ELSE <<>>)
                /\ ReplyOwed(ws'[c].msg) = <<>> <=> ws'[c].pc = "recv"
          /\ ws[c].pc = "reply" /\ ws'[c].pc # "reply" => AfterReplyStep(c)]_vars

\* C17 witness: a subscriber whose first ping was answered, whose connection
\* then closed, and whose second ping, read after that, got no pong; it is
\* still in the set
C17_Witness ==
    \E c \in Handles :
        /\ ws[c].nrecv = 2
        /\ ws[c].msg = "ping"
        /\ ws[c].conn = "closed"
        /\ ws[c].pc = "recv"
        /\ Len(SelectSeq(log[c], LAMBDA e : e.type = "pong")) = 1
        /\ c \in connected_clients

\* The broadcasts written to handle c's socket
Broadcasts(lg, c) == SelectSeq(lg[c], LAMBDA e : e.kind = "broadcast")

\* Membership in every state: a handle is in the set from the start of its
\* handler until it is removed, once; a handle whose handler has ended is not
\* in the set; a handle whose send failed in a pass is out of the set when
\* that pass has ended.
MembershipState ==
    /\ connected_clients \subseteq Handles
    /\ \A c \in Handles :
          /\ nremoved[c] <= 1
          /\ c \in connected_clients <=> nremoved[c] = 0
          /\ ws[c].pc = "ended" => c \notin connected_clients
    /\ \A t \in 1..Len(tasks) :
          PassEnded(t) => tasks[t].disconnected \cap connected_clients = {}

\* Membership in every step: only a handle whose handler starts in the step
\* enters the set; a handle leaves it only when its handler ends or when a
\* pass in which its send failed prunes it; a handle outside the set is
\* written no broadcast.
MembershipStep ==
    /\ \A c \in connected_clients' \ connected_clients : c \notin Handles
    /\ \A c \in (DOMAIN ws') \ Handles : c \in connected_clients'
    /\ \A c \in connected_clients \ connected_clients' :
          \/ ws[c].pc # "ended" /\ ws'[c].pc = "ended"
          \/ \E t \in 1..Len(tasks) :
                /\ tasks[t].pc = "send" /\ tasks'[t].pc = "done"
                /\ c \in tasks'[t].disconnected
    /\ \A c \in Handles \ connected_clients : Broadcasts(log', c) = Broadcasts(log, c)

\* C18: a handle enters the set exactly once, when its handler starts; it
\* leaves on its first failed broadcast send or when its handler ends; once
\* removed it is never re-added and gets no further broadcast; the set never
\* contains a handle whose handler has ended.
C18_MembershipLifecycle ==
    /\ []MembershipState
    /\ [][MembershipStep]_vars

\* Pass t (task numbers are arrival numbers) has written its snapshot to the
\* socket of handle c according to the socket logs lg
SentBy(lg, c, t) ==
    \E k \in 1..Len(lg[c]) : lg[c][k].kind = "broadcast" /\ lg[c][k].task = t

\* Handle c was sent the snapshot of a later datagram before that of an
\* earlier one
OutOfOrderAt(c) ==
    \E i, j \in 1..Len(log[c]) :
        /\ i < j
        /\ log[c][i].kind = "broadcast" /\ log[c][j].kind = "broadcast"
        /\ log[c][i].task > log[c][j].task

\* A step in which pass t writes to a socket that already holds the snapshot
\* of a later datagram u is the resumption of t after a suspended send and
\* u's handler has started; the first run of a handler never does it.
OutOfOrderStep ==
    \A c \in Handles : \A t \in 1..Len(tasks) :
        (~SentBy(log, c, t) /\ SentBy(log', c, t)) =>
            \A u \in (t + 1)..Len(tasks) :
                SentBy(log, c, u) =>
                    /\ tasks[t].pc = "send"
                    /\ tasks[u].pc # "created"

\* C22: datagrams are dispatched one task each and the tasks start in arrival
\* order, yet delivery is not FIFO: a subscriber is sent the snapshot of a
\* datagram B before that of a datagram A that arrived earlier (the state of
\* C22_Witness is reached), and this is always the work of A's broadcast pass
\* resuming after a send that suspended, B's handler having run meanwhile.
C22_NotFifo ==
    [][OutOfOrderStep]_vars

\* C22 witness: some subscriber has been sent B's snapshot before A's, A
\* having arrived before B
C22_Witness ==
    \E c \in Handles : OutOfOrderAt(c)

\* The handlers that have started, and those among them whose datagram is of
\* the given kind ("skeleton" or "frame"); task numbers are arrival numbers
Started == {t \in 1..Len(tasks) : tasks[t].pc # "created"}

StartedOfKind(kind) == {t \in Started : detect_packet_type(tasks[t].data) = kind}

\* The slot holds the snapshot of the last-arrived started datagram of its kind
SlotIsLatest(slot, kind) ==
    IF StartedOfKind(kind) = {} THEN slot = NoneVal
    ELSE /\ slot # NoneVal
         /\ slot = tasks[MaxOf(StartedOfKind(kind))].message

\* Arrival number of the datagram whose snapshot the slot holds; 0 when empty
ArrivalOf(slot, tk) ==
    IF slot = NoneVal THEN 0
    ELSE MaxOf({t \in 1..Len(tk) : tk[t].message = slot})

\* A handler stores its snapshot in the step in which it starts, that is,
\* before its first suspension; no other step writes a slot; and a slot never
\* goes back to the snapshot of an earlier arrival.
StoreStep ==
    /\ \A t \in 1..Len(tasks) :
          (tasks[t].pc = "created" /\ tasks'[t].pc # "created") =>
              /\ tasks'[t].message # NoneVal
              /\ IF detect_packet_type(tasks[t].data) = "skeleton"
                 THEN latest_skeleton' = tasks'[t].message /\ latest_frame' = latest_frame
                 ELSE latest_frame' = tasks'[t].message /\ latest_skeleton' = latest_skeleton
    /\ (\A t \in 1..Len(tasks) : tasks[t].pc = "created" => tasks'[t].pc = "created")
          => latest_skeleton' = latest_skeleton /\ latest_frame' = latest_frame
    /\ ArrivalOf(latest_skeleton', tasks') >= ArrivalOf(latest_skeleton, tasks)
    /\ ArrivalOf(latest_frame', tasks') >= ArrivalOf(latest_frame, tasks)

\* C23: Relay State is updated in arrival order although broadcasts
\* interleave: handlers start in arrival order and each stores its snapshot
\* before its first suspension, so each slot holds the snapshot of the
\* last-arrived datagram of its kind among the started handlers (of all the
\* dispatched ones once all have started), and an earlier datagram never
\* overwrites the snapshot of a later one.
C23_StateInArrivalOrder ==
    /\ [](/\ \A t \in Started : \A u \in 1..t : u \in Started
          /\ SlotIsLatest(latest_skeleton, "skeleton")
          /\ SlotIsLatest(latest_frame, "frame"))
    /\ [][StoreStep]_vars

\* C23 witness: two frame datagrams, both handlers started, a subscriber was
\* sent the second frame before the first, and the frame slot holds the second
C23_Witness ==
    /\ Len(tasks) >= 2
    /\ Started = 1..Len(tasks)
    /\ StartedOfKind("frame") = 1..Len(tasks)
    /\ \E c \in Handles : OutOfOrderAt(c)
    /\ latest_frame = tasks[Len(tasks)].message
    /\ latest_frame # tasks[1].message

\* Positions in handle c's socket log of the snapshots sent by the join
\* replay and by broadcast passes (replies to requests are not counted)
Deliveries(c) ==
    {k \in 1..Len(log[c]) : log[c][k].kind \in {"replay", "broadcast"}}

\* Two log entries carry the same snapshot: a snapshot is known by its type
\* and the time it was decoded
SameSnapshot(e, f) == e.type = f.type /\ e.ts = f.ts

\* C24: no subscriber is sent the same snapshot more than once, counting the
\* join replay and the broadcast passes; in particular not a frame that is
\* broadcast while the subscriber is still being replayed the cached skeleton.
C24_NoDuplicateSnapshot ==
    \A c \in Handles : \A i, j \in Deliveries(c) :
        SameSnapshot(log[c][i], log[c][j]) => i = j

-----------------------------------------------------------------------------
(* Decoder harness: the classifier and the decoders applied to input buffers *)

\* Segments concatenated into one classifier input
MaxSegs == 3

\* Filler bytes in front of the bone-data marker
MaxPrefix == 4

\* Bytes cut off the end of the last bone record
MaxCut == 1

Filler(n) == [i \in 1..n |-> 0]

Segments == {M_skdf, M_fram, M_btrs, Filler(1), Filler(SIZE_THRESHOLD - 1)}

RECURSIVE SegSeqs(_)
SegSeqs(n) ==
    IF n = 0 THEN {<<>>}
    ELSE LET shorter == SegSeqs(n - 1)
         IN shorter \cup {b \o g : b \in shorter, g \in Segments}

ClassifierInputs == SegSeqs(MaxSegs)

\* Little-endian encodings used to build bone records
I32Bytes(v) ==
    LET w == IF v >= 0 THEN v ELSE (v + 2147483647) + 1
    IN << w % 256, (w \div 256) % 256, (w \div 65536) % 256,
          (w \div 16777216) + (IF v >= 0 THEN 0 ELSE 128) >>

F32Bytes(f) ==
    << f.m % 256, (f.m \div 256) % 256, (f.m \div 65536) % 256,
       (f.m \div 16777216) + 128 * f.s >>

RecordBytes(bone_id, parent_id) ==
    I32Bytes(bone_id) \o I32Bytes(parent_id)
    \o F32Bytes(F32_ZERO) \o F32Bytes(F32_ZERO) \o F32Bytes(F32_ZERO) \o F32Bytes(F32_ONE)
    \o F32Bytes(F32_ONE) \o F32Bytes(FNeg(F32_ONE)) \o F32Bytes(F32_ZERO)

\* How the records of an input name their bones and parents
Patterns == {"canonical", "roots", "child_of_0", "ring", "out_of_range"}

PatternBoneId(p, i) ==
    CASE p = "out_of_range" -> IF i % 2 = 0 THEN NUM_BONES + i ELSE -5 - i
      [] OTHER -> i

PatternParentId(p, i) ==
    CASE p = "canonical" -> _get_parent_bone_id(i)
      [] p = "roots" -> -1
      [] p = "child_of_0" -> 0
      [] p = "ring" -> (i + 1) % NUM_BONES
      [] p = "out_of_range" -> IF i % 2 = 0 THEN NUM_BONES ELSE -2

RECURSIVE Records(_, _, _)
Records(p, i, n) ==
    IF i >= n THEN <<>>
    ELSE RecordBytes(PatternBoneId(p, i), PatternParentId(p, i)) \o Records(p, i + 1, n)

RecordCounts == {0, 1, NUM_BONES - 1, NUM_BONES, NUM_BONES + 1}

SkeletonInputs ==
    { LET body == Filler(pre) \o M_btdt \o Records(p, 0, n)
      IN SubSeq(body, 1, Len(body) - (IF n = 0 THEN 0 ELSE cut)) :
        pre \in 0..MaxPrefix, p \in Patterns, n \in RecordCounts, cut \in 0..MaxCut }

\* Filler bytes between two transform blocks
MaxGap == 1

\* Bytes cut off the end of the last transform block
MaxFrameCut == 5

\* The seven floats of block j: distinct bit patterns per block and component
BlockFloat(p, j, c) ==
    CASE p = "zero" -> F32_ZERO
      [] p = "signed" -> [s |-> (j + c) % 2, m |-> F32_ONE_BITS + 8 * j + c]
      [] OTHER -> [s |-> 0, m |-> F32_ONE_BITS + 8 * j + c]

\* 'tran' and its 28 payload bytes; in pattern "marker" the payload starts with
\* the bytes of the marker itself
BlockBytes(p, j) ==
    M_tran
    \o (IF p = "marker" THEN M_tran ELSE F32Bytes(BlockFloat(p, j, 0)))
    \o F32Bytes(BlockFloat(p, j, 1)) \o F32Bytes(BlockFloat(p, j, 2))
    \o F32Bytes(BlockFloat(p, j, 3)) \o F32Bytes(BlockFloat(p, j, 4))
    \o F32Bytes(BlockFloat(p, j, 5)) \o F32Bytes(BlockFloat(p, j, 6))

BlockPatterns == {"plain", "signed", "zero", "marker"}

RECURSIVE Blocks(_, _, _, _)
Blocks(p, gap, j, n) ==
    IF j >= n THEN <<>>
    ELSE BlockBytes(p, j) \o (IF j + 1 < n THEN Filler(gap) ELSE <<>>)
         \o Blocks(p, gap, j + 1, n)

BlockCounts == {0, 1, 3, NUM_BONES, NUM_BONES + 1}

\* What precedes the container marker: nothing, one byte, or a frame-id chunk
\* and a time chunk
Leads ==
    { <<>>, Filler(1),
      Filler(1) \o M_frid \o I32Bytes(-3) \o M_time \o Filler(4) \o F32Bytes(F32_ONE) }

FrameInputs ==
    { LET body == lead \o container \o Blocks(p, gap, 0, n)
      IN SubSeq(body, 1, Len(body) - (IF n = 0 THEN 0 ELSE cut)) :
        lead \in Leads, container \in {M_btrs, <<>>}, p \in BlockPatterns,
        gap \in 0..MaxGap, n \in BlockCounts, cut \in 0..MaxFrameCut }

\* Buffers about the frame-id chunk: the marker at offset 0 or 1, its value
\* whole or one byte short, and then nothing, one more byte or a second chunk
FrameIdInputs ==
    { lead \o M_frid \o SubSeq(I32Bytes(v), 1, 4 - cut) \o tail :
        lead \in {<<>>, Filler(1)}, v \in {-3, 7}, cut \in {0, 1},
        tail \in {<<>>, Filler(1), M_frid \o I32Bytes(9)} }

ParseInputs == ClassifierInputs \cup SkeletonInputs \cup FrameInputs

InitParse ==
    /\ connected_clients = {}
    /\ latest_skeleton = NoneVal
    /\ latest_frame = NoneVal
    /\ stats = InitStats
    /\ frame_counter = 0
    /\ tasks = <<>>
    /\ ws = <<>>
    /\ log = <<>>
    /\ nremoved = <<>>
    /\ table = <<>>
    /\ nevents = 0
    /\ data \in ParseInputs
    /\ step = "input"
    /\ ptype = ""
    /\ skel = NoneVal
    /\ frame_snapshot = NoneVal

ClassifyStep ==
    /\ step = "input"
    /\ ptype' = detect_packet_type(data)
    /\ step' = "classified"
    /\ UNCHANGED <<relayVars, data, skel, frame_snapshot>>

DecodeSkeletonStep ==
    /\ step = "classified"
    /\ skel' = parse_skeleton_definition(data, 0)
    /\ step' = "skeleton"
    /\ UNCHANGED <<relayVars, data, ptype, frame_snapshot>>

\* One call of parse_frame_data: the counter is incremented (line 228) and the
\* frame is returned
DecodeFrameStep ==
    /\ step = "classified"
    /\ frame_counter' = frame_counter + 1
    /\ frame_snapshot' = parse_frame_data(data, frame_counter, 0)
    /\ step' = "frame"
    /\ UNCHANGED <<connected_clients, latest_skeleton, latest_frame, stats, tasks, ws,
                   log, nremoved, table, nevents, data, ptype, skel>>

NextParse ==
    \/ ClassifyStep
    \/ DecodeSkeletonStep
    \/ DecodeFrameStep

SpecParse == InitParse /\ [][NextParse]_vars

-----------------------------------------------------------------------------
(* Call harness: parse_frame_data called on one packet after another *)

\* Calls of parse_frame_data in one execution
MaxCalls == 4

\* Packets decoded in sequence: the frame-id buffers, and frames with and
\* without a frame-id chunk, a container and a transform block
CallInputs ==
    FrameIdInputs
    \cup { lead \o container \o Blocks("signed", 0, 0, n) :
             lead \in Leads, container \in {M_btrs}, n \in {0, 1} }

InitCalls ==
    /\ connected_clients = {}
    /\ latest_skeleton = NoneVal
    /\ latest_frame = NoneVal
    /\ stats = InitStats
    /\ frame_counter = 0
    /\ tasks = <<>>
    /\ ws = <<>>
    /\ log = <<>>
    /\ nremoved = <<>>
    /\ table = <<>>
    /\ nevents = 0
    /\ data = <<>>
    /\ step = "idle"
    /\ ptype = ""
    /\ skel = NoneVal
    /\ frame_snapshot = NoneVal

\* The next call of parse_frame_data, on packet d
ParseFrameCall ==
    \E d \in CallInputs :
        /\ frame_counter < MaxCalls
        /\ data' = d
        /\ frame_counter' = frame_counter + 1
        /\ frame_snapshot' = parse_frame_data(d, frame_counter, 0)
        /\ step' = "frame"
        /\ UNCHANGED <<connected_clients, latest_skeleton, latest_frame, stats, tasks, ws,
                       log, nremoved, table, nevents, ptype, skel>>

NextCalls == ParseFrameCall

SpecCalls == InitCalls /\ [][NextCalls]_vars

-----------------------------------------------------------------------------
(* Properties of the decoders *)

\* marker occurs in buf at offset i
OccursAt(buf, marker, i) ==
    /\ i >= 0
    /\ i + Len(marker) <= Len(buf)
    /\ \A j \in 1..Len(marker) : buf[i + j] = marker[j]

OccursPositive(buf, marker) == \E i \in 1..Len(buf) : OccursAt(buf, marker, i)

\* C7: parse_skeleton_definition returns a Skeleton Snapshot with exactly 27
\* bones for every input, never None.
C7_SkeletonAlways27 ==
    step = "skeleton" =>
        /\ skel # NoneVal
        /\ skel.type = "skeleton_definition"
        /\ Len(skel.bones) = NUM_BONES

\* C7 witness: decoded inputs with the bone-data marker inside the first four
\* bytes, and with the last record cut short
C7_Witness ==
    /\ step = "skeleton"
    /\ find(data, M_btdt, 0) \in 1..3
    /\ Len(data) > 4 + BONE_RECORD_SIZE * (NUM_BONES - 1)
    /\ Len(data) < find(data, M_btdt, 0) + 4 + BONE_RECORD_SIZE * NUM_BONES
    /\ Len(skel.bones) = NUM_BONES

\* The bone whose id is b
BoneWithId(bones, b) ==
    bones[CHOOSE k \in 1..Len(bones) : bones[k].id = b]

RECURSIVE ReachesRoot(_, _, _)
ReachesRoot(bones, b, fuel) ==
    IF b = 0 THEN TRUE
    ELSE IF fuel = 0 \/ b < 0 \/ b >= NUM_BONES THEN FALSE
    ELSE ReachesRoot(bones, BoneWithId(bones, b).parent_id, fuel - 1)

\* The bones carry the ids 0..26 once each, bone 0 has parent -1, and every
\* other bone reaches bone 0 along parent links
TreeRootedAtZero(bones) ==
    /\ \A b \in 0..(NUM_BONES - 1) :
          Cardinality({k \in 1..Len(bones) : bones[k].id = b}) = 1
    /\ BoneWithId(bones, 0).parent_id = -1
    /\ \A b \in 1..(NUM_BONES - 1) : ReachesRoot(bones, b, NUM_BONES)

\* C8: the parent links of the returned bones form one tree rooted at bone 0.
C8_ParentsFormTree ==
    step = "skeleton" => TreeRootedAtZero(skel.bones)

\* C9: 'skdf' at an offset > 0 gives 'skeleton'; otherwise 'fram' or 'btrs' at
\* an offset > 0 gives 'frame'.
C9_MarkerDecides ==
    step # "input" =>
        /\ OccursPositive(data, M_skdf) => ptype = "skeleton"
        /\ ( /\ ~OccursPositive(data, M_skdf)
             /\ OccursPositive(data, M_fram) \/ OccursPositive(data, M_btrs) )
           => ptype = "frame"

NoMarkerAtPositiveOffset(buf) ==
    /\ ~OccursPositive(buf, M_skdf)
    /\ ~OccursPositive(buf, M_fram)
    /\ ~OccursPositive(buf, M_btrs)

\* C10: the classifier returns 'skeleton' or 'frame' for every buffer, and a
\* buffer with no marker at a strictly positive offset is classified by its
\* length alone: 'skeleton' iff longer than 1200 bytes.
C10_TotalAndLengthFallback ==
    step # "input" =>
        /\ ptype \in {"skeleton", "frame"}
        /\ NoMarkerAtPositiveOffset(data) =>
              ptype = (IF Len(data) > SIZE_THRESHOLD THEN "skeleton" ELSE "frame")

\* C10 witness: a classified buffer whose only marker sits at offset 0 and
\* whose length decides
C10_Witness ==
    /\ step = "classified"
    /\ OccursAt(data, M_fram, 0)
    /\ NoMarkerAtPositiveOffset(data)
    /\ Len(data) > SIZE_THRESHOLD
    /\ ptype = "skeleton"

\* Offsets at or after `from` where marker occurs in buf
Occurrences(buf, marker, from) ==
    {i \in from..(Len(buf) - Len(marker)) : OccursAt(buf, marker, i)}

\* The transform-block markers in scan order: the first at or after the
\* cursor, then the first at least 32 bytes after each match, up to the first
\* one with fewer than 28 payload bytes left in the buffer
RECURSIVE BlocksFrom(_, _, _)
BlocksFrom(markers, len, cursor) ==
    LET hits == {i \in markers : i >= cursor}
    IN IF hits = {} THEN <<>>
       ELSE LET q == MinOf(hits)
            IN IF len - (q + Len(M_tran)) < TRAN_PAYLOAD_SIZE THEN <<>>
               ELSE <<q>> \o BlocksFrom(markers, len, q + TRAN_BLOCK_STRIDE)

\* The blocks of a buffer: those after its first container marker
ScannedBlocks(buf) ==
    LET containers == Occurrences(buf, M_btrs, 0)
    IN IF containers = {} THEN <<>>
       ELSE BlocksFrom(Occurrences(buf, M_tran, 0), Len(buf), MinOf(containers))

\* The c-th (0..6) raw float of the block whose marker is at offset q
Raw(buf, q, c) == read_float_le(buf, q + 4 + 4 * c).val

\* C11: every bone of a decoded frame carries the conversion of the seven
\* floats of its transform block: rotation (-x, y, z, -w), position (-x, y, z);
\* x and w have their sign flipped, y and z are passed through.
C11_CoordinateConversion ==
    step = "frame" =>
        /\ frame_snapshot # NoneVal
        /\ frame_snapshot.bones # <<>> =>
           LET blocks == ScannedBlocks(data)
           IN
           /\ Len(frame_snapshot.bones) <= Len(blocks)
           /\ \A k \in 1..Len(frame_snapshot.bones) :
              LET b == frame_snapshot.bones[k]
                  q == blocks[k]
              IN /\ b.rotation.x = FNeg(Raw(data, q, 0)) /\ b.rotation.x # Raw(data, q, 0)
                 /\ b.rotation.y = Raw(data, q, 1)
                 /\ b.rotation.z = Raw(data, q, 2)
                 /\ b.rotation.w = FNeg(Raw(data, q, 3)) /\ b.rotation.w # Raw(data, q, 3)
                 /\ b.position.x = FNeg(Raw(data, q, 4)) /\ b.position.x # Raw(data, q, 4)
                 /\ b.position.y = Raw(data, q, 5)
                 /\ b.position.z = Raw(data, q, 6)

\* C11 witness: a decoded frame of 27 bones whose raw values carry both signs
C11_Witness ==
    /\ step = "frame"
    /\ Len(frame_snapshot.bones) = NUM_BONES
    /\ \E j, k \in 1..NUM_BONES :
          /\ Raw(data, ScannedBlocks(data)[j], 3).s = 1
          /\ frame_snapshot.bones[j].rotation.w.s = 0
          /\ Raw(data, ScannedBlocks(data)[k], 3).s = 0
          /\ frame_snapshot.bones[k].rotation.w.s = 1

\* The bone the k-th (1-based) scanned block, at offset q, stands for
BoneOfBlock(buf, q, k) ==
       [id |-> k - 1,
        name |-> BONE_NAMES[k],
        rotation |-> [x |-> FNeg(Raw(buf, q, 0)), y |-> Raw(buf, q, 1),
                      z |-> Raw(buf, q, 2), w |-> FNeg(Raw(buf, q, 3))],
        position |-> [x |-> FNeg(Raw(buf, q, 4)), y |-> Raw(buf, q, 5),
                      z |-> Raw(buf, q, 6)]]

\* C12: a decoded frame has at most 27 bones; its k-th bone has id k and the
\* k-th bone name and is read from the k-th marker of the scan (from the
\* container marker, resuming 32 bytes after each match, ending at the first
\* marker with fewer than 28 payload bytes); when the container marker is
\* found at an offset > 0 no scanned block among the first 27 is left out.
C12_BonesFollowScan ==
    step = "frame" =>
        LET bones == frame_snapshot.bones
            blocks == ScannedBlocks(data)
        IN /\ Len(bones) <= NUM_BONES
           /\ Len(bones) <= Len(blocks)
           /\ \A k \in 1..Len(bones) : bones[k] = BoneOfBlock(data, blocks[k], k)
           /\ OccursPositive(data, M_btrs) /\ ~OccursAt(data, M_btrs, 0)
                 => Len(bones) = Min2(NUM_BONES, Len(blocks))

\* C12 witness: a decoded buffer with more than 27 scanned blocks, whose
\* payloads hold the marker's bytes as well, decoded to 27 bones
C12_Witness ==
    /\ step = "frame"
    /\ Len(ScannedBlocks(data)) > NUM_BONES
    /\ Cardinality(Occurrences(data, M_tran, 0)) > Len(ScannedBlocks(data))
    /\ Len(frame_snapshot.bones) = NUM_BONES

\* The transform-block markers after the first container marker
BlocksAfterContainer(buf) ==
    LET containers == Occurrences(buf, M_btrs, 0)
    IN IF containers = {} THEN {} ELSE Occurrences(buf, M_tran, MinOf(containers))

\* The buffer holds a container marker followed by 1..27 transform-block
\* markers, each with its 28 payload bytes in the buffer and no marker inside
\* a payload
ContainerWithBlocks(buf) ==
    LET T == BlocksAfterContainer(buf)
    IN /\ Cardinality(T) \in 1..NUM_BONES
       /\ \A q \in T : q + Len(M_tran) + TRAN_PAYLOAD_SIZE <= Len(buf)
       /\ \A q, r \in T : q < r => r >= q + TRAN_BLOCK_STRIDE

\* C13: a buffer with a container marker (at any offset, offset 0 included)
\* followed by k well-formed transform blocks, 1 <= k <= 27, decodes to exactly
\* k bones, in block order, each the converted values of its block.
C13_ContainerAtAnyOffset ==
    step = "frame" /\ ContainerWithBlocks(data) =>
        LET blocks == ScannedBlocks(data)
        IN /\ Len(frame_snapshot.bones) = Cardinality(BlocksAfterContainer(data))
           /\ \A k \in 1..Len(frame_snapshot.bones) :
                 frame_snapshot.bones[k] = BoneOfBlock(data, blocks[k], k)

\* text (sextets, 64 for '=') is the padded base64 form of buf: four sextets
\* spell the 24 bits of each group of three bytes, and a last group of one
\* or two bytes is spelt by two or three sextets followed by '='
IsBase64Of(text, buf) ==
    LET n == Len(buf)
        full == n \div 3
        rest == n % 3
        t(k) == text[4 * full + k]
    IN /\ Len(text) = 4 * ((n + 2) \div 3)
       /\ \A g \in 0..(full - 1) :
             /\ \A j \in 1..4 : text[4 * g + j] \in 0..63
             /\ text[4 * g + 1] * 262144 + text[4 * g + 2] * 4096
                    + text[4 * g + 3] * 64 + text[4 * g + 4]
                = buf[3 * g + 1] * 65536 + buf[3 * g + 2] * 256 + buf[3 * g + 3]
       /\ rest = 1 =>
             /\ t(1) = buf[n] \div 4
             /\ t(2) = (buf[n] % 4) * 16
             /\ t(3) = 64 /\ t(4) = 64
       /\ rest = 2 =>
             /\ t(1) = buf[n - 1] \div 4
             /\ t(2) = (buf[n - 1] % 4) * 16 + buf[n] \div 16
             /\ t(3) = (buf[n] % 16) * 4
             /\ t(4) = 64

DiagnosticKeys == {"raw_data", "data_length", "parse_note"}

\* C14: parse_frame_data returns a frame for every input; a buffer without
\* transform markers gives an empty bones list; the diagnostic payload (the
\* raw buffer, its length and a note) is attached exactly when the bones list
\* is empty.
C14_DiagnosticIffNoBones ==
    step = "frame" =>
        /\ frame_snapshot # NoneVal
        /\ frame_snapshot.type = "frame_data"
        /\ (Occurrences(data, M_tran, 0) = {} \/ Occurrences(data, M_btrs, 0) = {})
              => frame_snapshot.bones = <<>>
        /\ IF frame_snapshot.bones = <<>>
           THEN /\ DiagnosticKeys \subseteq DOMAIN frame_snapshot
                /\ IsBase64Of(frame_snapshot.raw_data, data)
                /\ frame_snapshot.data_length = Len(data)
                /\ frame_snapshot.parse_note = "Could not extract bone transforms"
           ELSE DiagnosticKeys \cap DOMAIN frame_snapshot = {}

\* C14 witness: a decoded buffer of more than a thousand bytes without any
\* transform marker, returned with its raw bytes attached
C14_Witness ==
    /\ step = "frame"
    /\ Len(data) > 1000
    /\ Occurrences(data, M_tran, 0) = {}
    /\ frame_snapshot.bones = <<>>
    /\ "raw_data" \in DOMAIN frame_snapshot

\* The canonical parent table: the root has none, the arms hang off spine
\* bone 6, the legs off the root, every other bone off the bone before it
CanonicalParent(i) ==
    CASE i = 0 -> -1
      [] i \in {11, 15} -> 6
      [] i \in {19, 23} -> 0
      [] OTHER -> i - 1

\* bones is the synthesized skeleton
IsSynthesized(bones) ==
    /\ Len(bones) = NUM_BONES
    /\ \A i \in 0..(NUM_BONES - 1) :
          /\ bones[i + 1].id = i
          /\ bones[i + 1].parent_id = CanonicalParent(i)
          /\ bones[i + 1].rotation = [x |-> F32_ZERO, y |-> F32_ZERO, z |-> F32_ZERO, w |-> F32_ONE]
          /\ bones[i + 1].position = [x |-> F32_ZERO, y |-> F32_ZERO, z |-> F32_ZERO]

\* Bytes after the first bone-data marker; -1 when the marker is absent
BytesAfterBtdt(buf) ==
    LET hits == Occurrences(buf, M_btdt, 0)
    IN IF hits = {} THEN -1 ELSE Len(buf) - (MinOf(hits) + Len(M_btdt))

\* Offset of the first byte after the first bone-data marker
RecordsStart(buf) == MinOf(Occurrences(buf, M_btdt, 0)) + Len(M_btdt)

\* The c-th (0..6) float of record i of the records that begin at start
RecordFloat(buf, start, i, c) ==
    read_float_le(buf, start + BONE_RECORD_SIZE * i + 8 + 4 * c).val

\* Every bone carries the transform of the record at its position
AllFromRecords(buf, bones) ==
    /\ Len(bones) = NUM_BONES
    /\ BytesAfterBtdt(buf) >= BONE_RECORD_SIZE * NUM_BONES
    /\ LET start == RecordsStart(buf)
           F(i, c) == RecordFloat(buf, start, i, c)
       IN \A i \in 0..(NUM_BONES - 1) :
             /\ bones[i + 1].rotation = [x |-> F(i, 0), y |-> F(i, 1), z |-> F(i, 2), w |-> F(i, 3)]
             /\ bones[i + 1].position = [x |-> F(i, 4), y |-> F(i, 5), z |-> F(i, 6)]

\* C15: when the bone-data marker is absent or fewer than 27 whole records
\* follow it, the skeleton returned is the synthesized one (bone i has id i,
\* its canonical parent, rotation (0,0,0,1), position (0,0,0)); and every
\* skeleton returned is either the synthesized one or made of the 27 records:
\* never a mix.
C15_SynthesizedWhenIncomplete ==
    step = "skeleton" =>
        /\ BytesAfterBtdt(data) < BONE_RECORD_SIZE * NUM_BONES => IsSynthesized(skel.bones)
        /\ IsSynthesized(skel.bones) \/ AllFromRecords(data, skel.bones)

\* C15 witness: 26 whole records and a part of the 27th after a marker at
\* offset 4 or more, decoded to the synthesized skeleton
C15_Witness ==
    /\ step = "skeleton"
    /\ Occurrences(data, M_btdt, 0) # {}
    /\ MinOf(Occurrences(data, M_btdt, 0)) >= 4
    /\ BytesAfterBtdt(data) > BONE_RECORD_SIZE * (NUM_BONES - 1)
    /\ BytesAfterBtdt(data) < BONE_RECORD_SIZE * NUM_BONES
    /\ IsSynthesized(skel.bones)

\* The bone_id (k = 0) or parent_id (k = 1) field of record i of the records
\* that begin at start
RecordInt(buf, start, i, k) ==
    read_int32_le(buf, start + BONE_RECORD_SIZE * i + 4 * k).val

\* The skeleton returned was read from the 27 records of the packet
ReadFromRecords ==
    /\ step = "skeleton"
    /\ AllFromRecords(data, skel.bones)
    /\ ~IsSynthesized(skel.bones)

\* C19: the id of the bone read from record i is the record's bone_id when
\* that is in [0,27) and the positional index i otherwise (negative, or 27
\* and above).
C19_BoneIdSubstitution ==
    ReadFromRecords =>
        LET start == RecordsStart(data)
        IN \A i \in 0..(NUM_BONES - 1) :
              LET bone_id == RecordInt(data, start, i, 0)
              IN skel.bones[i + 1].id =
                    IF bone_id >= 0 /\ bone_id < NUM_BONES THEN bone_id ELSE i

\* C20: the parent_id of the bone read from record i is the record's
\* parent_id when that is in [-1,27) and the canonical parent of i otherwise;
\* every parent_id of every skeleton returned lies in [-1,27).
C20_ParentIdSubstitution ==
    step = "skeleton" =>
        /\ \A k \in 1..Len(skel.bones) :
              skel.bones[k].parent_id >= -1 /\ skel.bones[k].parent_id < NUM_BONES
        /\ ReadFromRecords =>
              LET start == RecordsStart(data)
              IN \A i \in 0..(NUM_BONES - 1) :
                    LET parent_id == RecordInt(data, start, i, 1)
                    IN skel.bones[i + 1].parent_id =
                          IF parent_id >= -1 /\ parent_id < NUM_BONES
                          THEN parent_id ELSE CanonicalParent(i)

\* C20 witness: a skeleton read from records whose parent_id fields are 27 and
\* -2, and one whose fields are kept: here the substituted ones
C20_Witness ==
    /\ ReadFromRecords
    /\ RecordInt(data, RecordsStart(data), 11, 1) < -1
    /\ RecordInt(data, RecordsStart(data), 12, 1) >= NUM_BONES
    /\ skel.bones[12].parent_id = 6
    /\ skel.bones[13].parent_id = 11

\* The first offset at which a whole 8-byte frame-id chunk starts; -1 if the
\* buffer holds none
EmbeddedIdAt(buf) ==
    LET whole == {i \in Occurrences(buf, M_frid, 0) : i + 8 <= Len(buf)}
    IN IF whole = {} THEN -1 ELSE MinOf(whole)

\* The little-endian signed 32-bit value at offset off
LE32(buf, off) ==
    buf[off + 1] + 256 * buf[off + 2] + 65536 * buf[off + 3]
    + 16777216 * (IF buf[off + 4] >= 128 THEN buf[off + 4] - 256 ELSE buf[off + 4])

\* A step seen as a call of parse_frame_data on the packet data' (the step
\* ends in "frame") or as anything else
FrameCallStep ==
    IF step' = "frame"
    THEN /\ frame_counter' = frame_counter + 1
         /\ frame_snapshot' # NoneVal
         /\ frame_snapshot'.frame_id =
               IF EmbeddedIdAt(data') >= 0 THEN LE32(data', EmbeddedIdAt(data') + 4)
               ELSE frame_counter'
         /\ (step = "frame" /\ EmbeddedIdAt(data') < 0 /\ EmbeddedIdAt(data) < 0) =>
               frame_snapshot'.frame_id > frame_snapshot.frame_id
    ELSE frame_counter' = frame_counter

\* C21: every call of parse_frame_data increases the frame counter by exactly
\* one whatever the packet holds, and nothing else changes the counter; the
\* frame_id returned is the little-endian 32-bit value after the 'frid' marker
\* when the buffer holds a whole 8-byte frame-id chunk and the new value of the
\* counter otherwise, so successive frames without an embedded id get strictly
\* increasing frame_ids.
C21_FrameCounterAndId ==
    [][FrameCallStep]_vars

=============================================================================
